---- MODULE Spec2Model ----
(***************************************************************************)
(* Model of lib/internal/errors.js: the message registry (messages, E,     *)
(* message) and the NodeError classes produced by makeNodeError.           *)
(*                                                                         *)
(* JavaScript values are records [t |-> typeof-like tag, v |-> payload].   *)
(* Strings are TLA+ strings, concatenated with \o.                         *)
(***************************************************************************)
EXTENDS Integers, Sequences, FiniteSets, TLC

VARIABLES messages, errors, call, ret, args

vars == <<messages, errors, call, ret, args>>

----------------------------------------------------------------------------
(* Bounds *)

MaxArgs == 2
MaxErrors == 1

----------------------------------------------------------------------------
(* JavaScript values *)

Str(s) == [t |-> "string", v |-> s]
Num(n) == [t |-> "number", v |-> n]
Arr(s) == [t |-> "array", v |-> s]
Fn(f) == [t |-> "function", v |-> f]
Null == [t |-> "null", v |-> 0]
Undefined == [t |-> "undefined", v |-> 0]

\* the typeof operator
typeof(x) ==
  CASE x.t = "string" -> "string"
    [] x.t = "number" -> "number"
    [] x.t = "function" -> "function"
    [] x.t = "undefined" -> "undefined"
    [] OTHER -> "object"

\* ToBoolean, as applied by assert(value, message)
Truthy(x) ==
  CASE x.t = "string" -> x.v # ""
    [] x.t = "number" -> x.v # 0
    [] x.t = "null" -> FALSE
    [] x.t = "undefined" -> FALSE
    [] OTHER -> TRUE

RECURSIVE JoinStrings(_, _)
\* Array.prototype.join on an array whose elements are already JS strings
JoinStrings(s, sep) ==
  IF s = <<>> THEN ""
  ELSE IF Len(s) = 1 THEN s[1].v
  ELSE s[1].v \o sep \o JoinStrings(Tail(s), sep)

RECURSIVE ToStr(_)
\* String(x) and the ${x} conversion of template literals
ToStr(x) ==
  CASE x.t = "string" -> x.v
    [] x.t = "number" -> ToString(x.v)
    [] x.t = "null" -> "null"
    [] x.t = "undefined" -> "undefined"
    [] x.t = "function" -> "function " \o x.v
    [] x.t = "array" ->
         JoinStrings([i \in 1..Len(x.v) |->
                        IF x.v[i].t \in {"null", "undefined"}
                        THEN Str("") ELSE Str(ToStr(x.v[i]))], ",")

\* outcomes of a call
Return(v) == [kind |-> "return", value |-> v]
Throw(name, msg) == [kind |-> "throw", value |-> [name |-> name, message |-> msg]]

\* the AssertionError thrown by assert(value, message) when value is falsy
AssertionError(msg) == Throw("AssertionError", msg)

\* positional parameter i of a call made with argument list a
Param(a, i) == IF i <= Len(a) THEN a[i] ELSE Undefined

----------------------------------------------------------------------------
(* util.format, for a format string without % directives: every further    *)
(* argument is appended after a space, objects through util.inspect.       *)

RECURSIVE inspectItems(_)
inspectItems(s) ==
  IF s = <<>> THEN ""
  ELSE (IF s[1].t = "string" THEN "'" \o s[1].v \o "'" ELSE ToStr(s[1]))
       \o (IF Len(s) > 1 THEN ", " ELSE "") \o inspectItems(Tail(s))

inspect(x) ==
  IF x.t = "array"
  THEN (IF x.v = <<>> THEN "[]" ELSE "[ " \o inspectItems(x.v) \o " ]")
  ELSE ToStr(x)

RECURSIVE formatRest(_)
formatRest(s) ==
  IF s = <<>> THEN ""
  ELSE " " \o (IF s[1].t = "array" THEN inspect(s[1]) ELSE ToStr(s[1]))
       \o formatRest(Tail(s))

format(a) ==
  IF a = <<>> THEN Return(Str(""))
  ELSE IF a[1].t = "string" THEN Return(Str(a[1].v \o formatRest(Tail(a))))
  ELSE Return(Str(inspect(a[1]) \o formatRest(Tail(a))))

----------------------------------------------------------------------------
(* The formatting functions of the catalog *)

\* expected.map((i) => String(i))
MapString(s) == [i \in 1..Len(s) |-> Str(ToStr(s[i]))]

\* typeof actual, with null reported as 'null'
ReceivedType(actual) == IF actual.t # "null" THEN typeof(actual) ELSE "null"

invalidArgType(a) ==
  LET name == Param(a, 1)
      expected == Param(a, 2)
      actual == Param(a, 3)
      head == "The \"" \o ToStr(name) \o "\" argument must be "
      len == Len(expected.v)
      strs == MapString(expected.v)
      body ==
        IF expected.t = "array"
        THEN IF len > 1
             THEN "one of type " \o JoinStrings(SubSeq(strs, 1, len - 1), ", ")
                  \o ", or " \o strs[len].v
             ELSE "type " \o ToStr(Param(strs, 1))
        ELSE "type " \o ToStr(expected)
      tail == IF Len(a) >= 3
              THEN ". Received type " \o ReceivedType(actual)
              ELSE ""
  IN IF ~Truthy(name) THEN AssertionError("name is required")
     ELSE IF ~Truthy(expected) THEN AssertionError("expected is required")
     ELSE Return(Str(head \o body \o tail))

invalidArgValue(a) ==
  LET name == Param(a, 1)
      expected == Param(a, 2)
      actual == Param(a, 3)
      head == "The \"" \o ToStr(name) \o "\" argument must be "
      len == Len(expected.v)
      strs == MapString(expected.v)
      body ==
        IF expected.t = "array"
        THEN IF len > 1
             THEN JoinStrings(SubSeq(strs, 1, len - 1), ", ")
                  \o ", or " \o strs[len].v
             ELSE ToStr(Param(strs, 1))
        ELSE ToStr(expected)
      tail == IF Len(a) >= 3
              THEN ". Received " \o ReceivedType(actual)
              ELSE ""
  IN IF ~Truthy(name) THEN AssertionError("name is required")
     ELSE IF ~Truthy(expected) THEN AssertionError("expected is required")
     ELSE Return(Str(head \o body \o tail))

\* fmt.apply(null, a) for a registered formatting function f
Apply(f, a) ==
  CASE f.v = "ERR_ASSERTION" -> Return(Param(a, 1))
    [] f.v = "invalidArgType" -> invalidArgType(a)
    [] f.v = "invalidArgValue" -> invalidArgValue(a)
    [] f.v = "ERR_INVALID_FLAG" ->
         Return(Str(ToStr(Param(a, 1)) \o " must use valid flags"))
    [] f.v = "ERR_INVALID_IP" ->
         Return(Str("\"" \o ToStr(Param(a, 1))
                    \o "\" argument must be a valid IP address, got "
                    \o ToStr(Param(a, 2))))
    [] f.v = "ERR_INVALID_PORT" ->
         Return(Str("\"" \o ToStr(Param(a, 1))
                    \o "\" argument must be >= 0 and < 65536, got "
                    \o ToStr(Param(a, 2))))
    [] f.v = "ERR_SETTING_SERVERS" ->
         Return(Str("c-ares failed to set servers: \"" \o ToStr(Param(a, 1))
                    \o "\" [" \o ToStr(Param(a, 2)) \o "]"))

----------------------------------------------------------------------------
(* The registry *)

EKeepFirst(msgs, sym, val) ==
  IF sym \in DOMAIN msgs THEN msgs
  ELSE [k \in DOMAIN msgs \cup {sym} |->
          IF k = sym
          THEN (IF typeof(val) = "function" THEN val ELSE Str(ToStr(val)))
          ELSE msgs[k]]

\* E(sym, val): messages.set(sym, typeof val === 'function' ? val : String(val))
E(msgs, sym, val) ==
  [k \in DOMAIN msgs \cup {sym} |->
     IF k = sym
     THEN (IF typeof(val) = "function" THEN val ELSE Str(ToStr(val)))
     ELSE msgs[k]]

\* messages.get(key)
Get(msgs, key) == IF key \in DOMAIN msgs THEN msgs[key] ELSE Undefined

KeyIsStringSkipped(key) == TRUE

\* assert.strictEqual(typeof key, 'string') passes
KeyIsString(key) == typeof(key) = "string"

InvalidKeyUnnamed(key) ==
  AssertionError("An invalid error message key was used.")

\* the failure of assert(msg, `An invalid error message key was used: ${key}.`)
InvalidKey(key) ==
  AssertionError("An invalid error message key was used: " \o ToStr(key) \o ".")

StringResultRaw(r) == r

\* String(fmt.apply(null, args)), r being the outcome of the apply
StringResult(r) ==
  IF r.kind = "return" THEN Return(Str(ToStr(r.value))) ELSE r

\* message(key, args): the outcome of the call and the args array after it
message(msgs, key, a) ==
  LET msg == Get(msgs, key)
      list == IF a.t = "undefined" THEN <<>> ELSE a.v
  IN IF ~KeyIsString(key)
     THEN [out |-> AssertionError("'" \o typeof(key) \o "' === 'string'"),
           args |-> a]
     ELSE IF ~Truthy(msg)
     THEN [out |-> InvalidKey(key), args |-> a]
     ELSE IF typeof(msg) = "function"
     THEN [out |-> StringResult(Apply(msg, list)), args |-> a]
     ELSE IF a.t = "undefined" \/ Len(list) = 0
     THEN [out |-> Return(msg), args |-> a]
     ELSE [out |-> StringResult(format(<<msg>> \o list)),
           args |-> Arr(<<msg>> \o list)]

\* the E(...) calls made while the module loads, in source order
Catalog ==
  << <<Str("ERR_ASSERTION"), Fn("ERR_ASSERTION")>>,
     <<Str("ERR_INVALID_ARGS"), Str("invalid arguments")>>,
     <<Str("ERR_INVALID_ARG_TYPE"), Fn("invalidArgType")>>,
     <<Str("ERR_INVALID_ARG_VALUE"), Fn("invalidArgValue")>>,
     <<Str("ERR_INVALID_CALLBACK"), Str("callback must be a function")>>,
     <<Str("ERR_INVALID_FLAG"), Fn("ERR_INVALID_FLAG")>>,
     <<Str("ERR_INVALID_IP"), Fn("ERR_INVALID_IP")>>,
     <<Str("ERR_INVALID_PORT"), Fn("ERR_INVALID_PORT")>>,
     <<Str("ERR_SETTING_SERVERS"), Fn("ERR_SETTING_SERVERS")>> >>

CatalogCodes == {Catalog[i][1] : i \in DOMAIN Catalog}

RECURSIVE Load(_, _)
\* the registry after the catalog entries from i on have been registered
Load(msgs, i) ==
  IF i > Len(Catalog) THEN msgs
  ELSE Load(E(msgs, Catalog[i][1], Catalog[i][2]), i + 1)

----------------------------------------------------------------------------
(* The NodeError classes *)

\* the classes exported as Error, TypeError and RangeError
Bases == {"Error", "TypeError", "RangeError"}

SuperNameOfError(base) == "Error"

\* super.name: the name property of Base.prototype
SuperName(base) ==
  CASE base = "Error" -> "Error"
    [] base = "TypeError" -> "TypeError"
    [] base = "RangeError" -> "RangeError"

\* get name()
name(e) == SuperName(e.base) \o "[" \o ToStr(e.kCode) \o "]"

\* get code()
code(e) == e.kCode

\* the object built by new NodeError(key, ...args) once message() returned m
NodeError(base, key, m) == [base |-> base, kCode |-> key, message |-> ToStr(m)]

----------------------------------------------------------------------------
(* Inputs of the calls *)

ArgVals == {Str("name"), Num(5), Arr(<<Str("a"), Str("b")>>)}

\* argument lists for invalidArgType/invalidArgValue: all three parameters,
\* and a null name
ExampleArgs ==
  {<<Str("name"), Str("string"), Num(5)>>,
   <<Str("name"), Arr(<<Str("a"), Str("b")>>), Null>>,
   <<Null, Str("string")>>}

ArgSeqs == UNION {[1..n -> ArgVals] : n \in 0..MaxArgs} \cup ExampleArgs

\* an args array, or args absent
ArgsInputs == {Undefined} \cup {Arr(s) : s \in ArgSeqs}

ResolveKeys ==
  CatalogCodes \cup {Str("GREETING"), Str("NOT_REGISTERED"), Num(5)}

\* the (sym, val) pairs callers register
RegInputs ==
  {<<Str("GREETING"), Str("hello")>>,
   <<Str("GREETING"), Str("")>>,
   <<Str("GREETING"), Num(7)>>,
   <<Str("GREETING"), Fn("ERR_ASSERTION")>>,
   <<Str("ERR_INVALID_ARGS"), Str("hello")>>,
   <<Str("ERR_INVALID_ARGS"), Str("invalid arguments")>>,
   <<Num(5), Str("hello")>>}

CtorKeys ==
  {Str("ERR_INVALID_ARGS"), Str("ERR_INVALID_ARG_TYPE"), Str("GREETING"),
   Str("NOT_REGISTERED"), Num(5)}

CtorArgs == {<<>>, <<Str("name"), Str("string"), Num(5)>>}

\* the (sym, val) pairs registered by callers that construct errors
CtorRegs ==
  {<<Str("GREETING"), Str("hello")>>,
   <<Str("ERR_INVALID_ARGS"), Str("hello")>>,
   <<Num(5), Str("hello")>>}

Call(op, base, obj, key, arg) ==
  [op |-> op, base |-> base, obj |-> obj, key |-> key, arg |-> arg]

----------------------------------------------------------------------------
(* State machine *)

Init ==
  /\ messages = Load(<<>>, 1)
  /\ errors = <<>>
  /\ call = Call("load", "", 0, Undefined, Undefined)
  /\ ret = Return(Undefined)
  /\ args = Undefined

RegisterRefresh(sym, val) ==
  /\ messages' = E(messages, sym, val)
  /\ call' = Call("E", "", 0, sym, val)
  /\ ret' = Return(Undefined)
  /\ args' = Undefined
  /\ errors' = [i \in DOMAIN errors |->
                  IF errors[i].kCode = sym /\ typeof(val) # "function"
                  THEN [errors[i] EXCEPT !.message = ToStr(val)]
                  ELSE errors[i]]

\* a caller runs E(sym, val)
Register(sym, val) ==
  /\ messages' = E(messages, sym, val)
  /\ call' = Call("E", "", 0, sym, val)
  /\ ret' = Return(Undefined)
  /\ args' = Undefined
  /\ UNCHANGED errors

ResolveTake(key, a) ==
  LET r == message(messages, key, a)
  IN /\ call' = Call("message", "", 0, key, a)
     /\ ret' = r.out
     /\ args' = r.args
     /\ messages' = [k \in DOMAIN messages \ {key} |-> messages[k]]
     /\ UNCHANGED errors

\* a caller runs message(key, a) on its own array a
Resolve(key, a) ==
  LET r == message(messages, key, a)
  IN /\ call' = Call("message", "", 0, key, a)
     /\ ret' = r.out
     /\ args' = r.args
     /\ UNCHANGED <<messages, errors>>

\* a caller runs new NodeError(key, ...a) for the class made from base
Construct(base, key, a) ==
  LET r == message(messages, key, Arr(a))
  IN /\ r.out.kind = "return" => Len(errors) < MaxErrors
     /\ call' = Call("new", base, 0, key, Arr(a))
     /\ args' = Undefined
     /\ IF r.out.kind = "return"
        THEN /\ errors' = Append(errors, NodeError(base, key, r.out.value))
             /\ ret' = Return([t |-> "object", v |-> Len(errors) + 1])
        ELSE /\ errors' = errors
             /\ ret' = r.out
     /\ UNCHANGED messages

AssignCodeStored(i, val, strict) ==
  /\ call' = Call("set code", errors[i].base, i, errors[i].kCode, val)
  /\ ret' = Return(val)
  /\ args' = Undefined
  /\ errors' = [errors EXCEPT ![i].kCode = val]
  /\ UNCHANGED messages

\* a caller runs errors[i].code = val; code has a getter and no setter, so
\* the assignment is ignored by sloppy code and a TypeError in strict code
AssignCode(i, val, strict) ==
  /\ call' = Call("set code", errors[i].base, i, errors[i].kCode, val)
  /\ ret' = IF strict
            THEN Throw("TypeError", "Cannot set property code")
            ELSE Return(val)
  /\ args' = Undefined
  /\ UNCHANGED <<messages, errors>>

RegisterAny == \E in \in RegInputs : Register(in[1], in[2])

ResolveAny == \E key \in ResolveKeys, a \in ArgsInputs : Resolve(key, a)

RegisterCall == \E in \in CtorRegs : Register(in[1], in[2])

ResolveCall == \E key \in CtorKeys, a \in CtorArgs : Resolve(key, Arr(a))

ConstructCall ==
  \E base \in Bases, key \in CtorKeys, a \in CtorArgs : Construct(base, key, a)

AssignCodeCall ==
  \E i \in DOMAIN errors, strict \in BOOLEAN : AssignCode(i, Str("OTHER"), strict)

\* the registry alone: registration and resolution
NextRegistry == RegisterAny \/ ResolveAny

SpecRegistry == Init /\ [][NextRegistry]_vars

\* the whole module: registry and error construction
Next == RegisterCall \/ ResolveCall \/ ConstructCall \/ AssignCodeCall

Spec == Init /\ [][Next]_vars

----------------------------------------------------------------------------
(* Properties *)

\* the argument list of the last call, [] when args was absent
CallList == IF call.arg.t = "undefined" THEN <<>> ELSE call.arg.v

\* C1: for every string code C registered with a fixed string S, the empty
\* string included, message(C, []) and message(C) return exactly S.
C1_FixedStringVerbatim ==
  (/\ call.op = "message"
   /\ typeof(call.key) = "string"
   /\ call.key \in DOMAIN messages
   /\ messages[call.key].t = "string"
   /\ CallList = <<>>)
  => ret = Return(messages[call.key])

\* m has the string k inside it
Mentions(m, k) ==
  \E p \in {"", "An invalid error message key was used: "}, q \in {"", "."} :
    m = p \o k \o q

\* C2: message(C, args) with a string code C that was never registered
\* throws an AssertionError whose message contains C, returns no string
\* and leaves the registry as it was.
C2_UnregisteredAsserts ==
  [][(/\ call'.op = "message"
      /\ typeof(call'.key) = "string"
      /\ call'.key \notin DOMAIN messages)
     => (/\ ret'.kind = "throw"
         /\ ret'.value.name = "AssertionError"
         /\ Mentions(ret'.value.message, call'.key.v)
         /\ messages' = messages)]_vars

C2_Witness ==
  /\ call.op = "message"
  /\ call.key = Str("NOT_REGISTERED")
  /\ call.key \notin DOMAIN messages
  /\ Str("GREETING") \in DOMAIN messages
  /\ ret.kind = "throw"

\* C3: message(code, args) with a code that is not a string throws an
\* AssertionError in every registry state and for every args, also when the
\* value is a key of the map: the type check comes before the lookup.
C3_NonStringAsserts ==
  (call.op = "message" /\ typeof(call.key) # "string")
  => (ret.kind = "throw" /\ ret.value.name = "AssertionError")

C3_Witness ==
  /\ call.op = "message"
  /\ call.key = Num(5)
  /\ Num(5) \in DOMAIN messages
  /\ ret.kind = "throw"

C5_FunctionTemplate ==
  (/\ call.op = "message"
   /\ typeof(call.key) = "string"
   /\ Get(messages, call.key).t = "function"
   /\ Apply(messages[call.key], CallList).kind = "return")
  => (/\ ret = Return(Str(ToStr(Apply(messages[call.key], CallList).value)))
      /\ ret = message([k \in {call.key} |-> messages[k]],
                       call.key, call.arg).out)

C5_Witness ==
  /\ call.op = "message"
  /\ call.key = Str("GREETING")
  /\ Get(messages, call.key) = Fn("ERR_ASSERTION")
  /\ call.arg = Arr(<<Num(5)>>)
  /\ ret = Return(Str("5"))

\* the template the registry holds for a registered value
Stored(val) == IF val.t = "function" THEN val ELSE Str(ToStr(val))

\* C6: E(C, T2) on a code C registered with T1 succeeds and replaces the
\* template: message(C, args) is then what T2 alone gives, and when T2 is
\* the template already stored, message gives for every code and args what
\* it gave before.
C6_LastRegistrationWins ==
  [][(call'.op = "E" /\ call'.key \in DOMAIN messages)
     => (/\ ret' = Return(Undefined)
         /\ messages'[call'.key] = Stored(call'.arg)
         /\ \A a \in ArgsInputs :
              message(messages', call'.key, a)
                = message([k \in {call'.key} |-> Stored(call'.arg)],
                          call'.key, a)
         /\ (Stored(call'.arg) = messages[call'.key])
            => \A k \in ResolveKeys, a \in ArgsInputs :
                 message(messages', k, a) = message(messages, k, a))]_vars

C6_Witness ==
  /\ call.op = "E"
  /\ call.key = Str("ERR_INVALID_ARGS")
  /\ call.arg = Str("hello")
  /\ messages[call.key] = Str("hello")

\* C7: the registry holds the nine catalog codes from the start, no code
\* ever leaves it, and message and constructor calls, failing or not, leave
\* the map exactly as it was.
C7_RegistryNeverShrinks ==
  [][/\ CatalogCodes \subseteq DOMAIN messages
     /\ Cardinality(CatalogCodes) = 9
     /\ DOMAIN messages \subseteq DOMAIN messages'
     /\ call'.op # "E" => messages' = messages]_vars

C7_Witness ==
  /\ call.op = "new"
  /\ ret.kind = "throw"
  /\ Cardinality(DOMAIN messages) > 9
  /\ Len(errors) > 0

\* C8: message changes nothing the caller can see: the caller's args array
\* has the same length and elements after the call, also for a fixed
\* string template and non-empty args.
C8_ArgsUntouched ==
  call.op = "message" => args = call.arg

\* C9: a constructed error's name is the base class's name followed by the
\* code in square brackets, for Error, TypeError and RangeError, in every
\* state after construction.
C9_Name ==
  [][/\ (call'.op = "new" /\ ret'.kind = "return")
        => name(errors'[Len(errors')])
             = call'.base \o "[" \o call'.key.v \o "]"
     /\ \A i \in DOMAIN errors :
          i \in DOMAIN errors' /\ name(errors'[i]) = name(errors[i])]_vars

C9_Witness ==
  /\ call.op = "new"
  /\ ret.kind = "return"
  /\ call.base = "TypeError"
  /\ name(errors[ret.value.v]) = "TypeError[ERR_INVALID_ARG_TYPE]"

\* C10: a constructed error's message is message(code, args) on the
\* registry as it is at construction, and stays that value: a later E call
\* on the same code does not change it.
C10_MessageAtConstruction ==
  [][/\ (call'.op = "new" /\ ret'.kind = "return")
        => errors'[Len(errors')].message
             = message(messages, call'.key, call'.arg).out.value.v
     /\ \A i \in DOMAIN errors :
          i \in DOMAIN errors' /\ errors'[i].message = errors[i].message]_vars

C10_Witness ==
  /\ call.op = "E"
  /\ \E i \in DOMAIN errors :
       /\ errors[i].kCode = Str("ERR_INVALID_ARGS")
       /\ call.key = errors[i].kCode
       /\ errors[i].message = "invalid arguments"
       /\ messages[errors[i].kCode] = Str("hello")

====
